---- MODULE Spec2Model ----
(***************************************************************************)
(* Model of the sunvoy user scraper: the three scripts of the repository   *)
(* (src/src/index.ts, src/unnamed/part_000, src/unnamed/part_001), each a  *)
(* single sequential main() over an axios client with a cookie jar, the    *)
(* retryRequest helper, extractNonce, loadCookies/saveCookies and          *)
(* saveToJson.  The remote server, the file system and the network are the *)
(* environment: their answers are drawn nondeterministically.              *)
(***************************************************************************)
EXTENDS Integers, Sequences, FiniteSets, TLC

VARIABLES
    variant,        \* which script runs: "index", "part_000", "part_001"
    pc,             \* position of main()
    cookiesFile,    \* content of COOKIES_FILE on disk
    jar,            \* the in-memory CookieJar
    cookiesLoaded,  \* const cookiesLoaded = await loadCookies()
    testResponse,   \* testResponse.status of the probe, NoStatus when there is none
    loginSuccess,   \* let loginSuccess (index.ts: 'Login successful' was printed)
    loginPage,      \* loginPageResp.data, until the login is over
    nonce,          \* const nonce = extractNonce(...)
    requests,       \* the HTTP requests issued so far, in order
    i,              \* retryRequest: loop index
    maxRetries,     \* retryRequest: parameter
    lastError,      \* retryRequest: let lastError
    waiting,        \* retryRequest: suspended in await delay(...)
    rrState,        \* retryRequest: "idle", "running", "returned", "threw"
    rrValue,        \* retryRequest: the value returned
    rrTrace,        \* retryRequest: calls of requestFn, log lines and waits of the current call
    usersData,      \* usersResponse.data
    users,          \* let users / const users
    currentUser,    \* const currentUser
    failed,         \* number of requests sent so far that threw (history)
    settingsData,   \* response.data of the settings page last handed to cheerio.load
    saveCalls,      \* number of calls of saveCookies()
    saveLog,        \* what saveCookies() printed last: "none", "saved", "error"
    outputFile,     \* output/users.json: <<>> or <<data>>
    outputWrites,   \* number of successful writes of output/users.json
    error,          \* the error caught by main's outer catch
    exitCode        \* -1 while running, 0 normal termination, 1 process.exit(1)

vars == <<variant, failed, pc, cookiesFile, jar, cookiesLoaded, testResponse, loginSuccess,
          loginPage, nonce, requests, i, maxRetries, lastError, waiting, rrState,
          rrValue, rrTrace, usersData, users, currentUser, settingsData, saveCalls, saveLog,
          outputFile, outputWrites, error, exitCode>>

rrVars == <<i, maxRetries, lastError, waiting, rrState, rrValue, rrTrace>>

(***************************************************************************)
(* Program constants                                                       *)
(***************************************************************************)
MAX_RETRIES == 3
RETRY_DELAY == 1000
UserLimit == 10

(***************************************************************************)
(* Bounds of the environment                                               *)
(***************************************************************************)
MaxArrayLen == 11       \* longest JSON array the users endpoint returns
MaxInputs == 2          \* most <input> elements on the login page
MaxSnapshotLen == 1     \* most entries of the cookie snapshot at startup
MaxAttemptsBound == 4   \* largest maxRetries passed to retryRequest on its own

Min(a, b) == IF a < b THEN a ELSE b

(***************************************************************************)
(* Errors are pairs <<message, status>>.                                   *)
(***************************************************************************)
NullError == <<"null", 0>>
NetworkError == <<"Network Error", 0>>
StatusError(s) == <<"Request failed with status code", s>>
NonceError == <<"Nonce not found on login page", 0>>
UsersFormatError == <<"Invalid users data format", 0>>
EmptySettingsError == <<"Empty token settings response", 0>>
NoUsersError == <<"Could not fetch users from any known endpoint", 0>>
WriteError == <<"EACCES", 0>>

Null == "<null>"

Variants == {"index", "part_000", "part_001"}
HasCookieStore == variant \in {"part_000", "part_001"}

(***************************************************************************)
(* HTTP                                                                    *)
(***************************************************************************)
\* answers of the server: a status, or 0 for a connection error
NoResponse == 0
\* no testResponse: the probe was not made, or it threw
NoStatus == -1
ProbeStatuses == {NoResponse, 200, 204, 401}
PageStatuses == {NoResponse, 200, 500}
LoginStatuses == {NoResponse, 200, 204, 302, 500}
DataStatuses == {200, 500}

\* axios' default validateStatus, used by every call that passes none
DefaultValidateStatus(status) == status >= 200 /\ status < 300
\* mutant: the redirect is not accepted
LoginValidateStatusOnly200(status) == status = 200
\* validateStatus of the login POST
LoginValidateStatus(status) == status = 302 \/ status = 200

ResponseError(status) == IF status = NoResponse THEN NetworkError ELSE StatusError(status)

Request(method, path, n) == [method |-> method, path |-> path, nonce |-> n]

(***************************************************************************)
(* The login page: the <input> elements of the markup in document order.   *)
(* valueFollowsName says that the value attribute comes right after the    *)
(* name attribute, separated by white space only.                          *)
(***************************************************************************)
Input(name, value, valueFollowsName) ==
    [name |-> name, value |-> value, valueFollowsName |-> valueFollowsName]
Inputs ==
    { Input("nonce", "abc123", TRUE),
      Input("Nonce", "xyz789", TRUE),
      Input("nonce", "", TRUE),
      Input("nonce", "abc123", FALSE),
      Input("csrf", "xyz789", TRUE) }
\* no page was fetched
NoPage == <<Input("<no page>", "", FALSE)>>
LoginPages == UNION {[1..n -> Inputs] : n \in 0..MaxInputs}

\* the /i flag of the pattern
LowerCase(s) == IF s = "Nonce" THEN "nonce" ELSE s

\* mutant: the value attribute may stand anywhere in the element
NonceMatchAnyOrder(e) == LowerCase(e.name) = "nonce" /\ e.value # ""
\* /name=["']nonce["']\s+value=["']([^"']+)["']/i matches at this element
NonceMatch(e) == LowerCase(e.name) = "nonce" /\ e.valueFollowsName /\ e.value # ""

extractNonce(html) ==
    IF \E k \in 1..Len(html) : NonceMatch(html[k])
    THEN html[CHOOSE k \in 1..Len(html) :
                 NonceMatch(html[k]) /\ \A j \in 1..(k - 1) : ~NonceMatch(html[j])].value
    ELSE Null

\* if (!nonce)
NonceMissing(n) == n = Null \/ n = ""

(***************************************************************************)
(* Cookies and the cookie snapshot                                         *)
(***************************************************************************)
HostDomain == "challenge.sunvoy.com"
Cookie(key, value, domain, path, expires) ==
    [key |-> key, value |-> value, domain |-> domain, path |-> path, expires |-> expires]

\* cookies the server sets with a successful login answer
SessionCookie == Cookie("sid", "fresh", HostDomain, "/", "2026")
ServerSetCookies == {{SessionCookie}}

\* jar.setCookie: last write wins per name, domain and path
SetCookie(j, c) ==
    {x \in j : ~(x.key = c.key /\ x.domain = c.domain /\ x.path = c.path)} \cup {c}

RECURSIVE SetCookies(_, _)
SetCookies(j, cs) ==
    IF cs = {} THEN j
    ELSE LET c == CHOOSE x \in cs : TRUE IN SetCookies(SetCookie(j, c), cs \ {c})

\* an entry of the snapshot file; ok = FALSE is an entry on which reading
\* cookie.key or jar.setCookie throws (null, or an unparsable cookie string)
SnapshotEntry(c, ok) == [cookie |-> c, ok |-> ok]
OldCookie == Cookie("sid", "old", HostDomain, "/", "2025")
BadEntry == SnapshotEntry(Cookie("", "", "", "", ""), FALSE)
SnapshotEntries == {SnapshotEntry(OldCookie, TRUE), BadEntry}

\* what the for loop gets from a character of a JSON string: cookie.key and
\* cookie.value are undefined, the cookie string is 'undefined=undefined'
CharEntry == SnapshotEntry(Cookie("undefined", "undefined", "", "", ""), TRUE)

\* JSON.parse(fs.readFileSync(COOKIES_PATH)): no file, text that does not
\* parse, a value that cannot be iterated (object, number, null), a string
\* (iterated character by character), an array
File(kind, entries) == [kind |-> kind, entries |-> entries]
MissingFile == File("missing", <<>>)
SnapshotFiles ==
    {MissingFile, File("unparseable", <<>>), File("notiterable", <<>>)}
    \cup {File("string", [k \in 1..n |-> CharEntry]) : n \in 1..MaxSnapshotLen}
    \cup {File("array", es) : es \in UNION {[1..n -> SnapshotEntries] : n \in 0..MaxSnapshotLen}}

\* for (const cookie of cookiesArr) runs on arrays and on strings
Iterable(file) == file.kind \in {"array", "string"}

\* `${cookie.key}=${cookie.value}` set on BASE_URL: only the name and the
\* value survive, the cookie becomes a host cookie of the default path
CookieFromString(c) == Cookie(c.key, c.value, HostDomain, "/", "Infinity")

\* the entries the for loop of loadCookies processes before it stops
LoadedPrefix(entries) ==
    IF \E k \in 1..Len(entries) : ~entries[k].ok
    THEN (CHOOSE k \in 1..Len(entries) :
              ~entries[k].ok /\ \A j \in 1..(k - 1) : entries[j].ok) - 1
    ELSE Len(entries)

RECURSIVE LoadInto(_, _, _)
LoadInto(j, entries, n) ==
    IF n = 0 THEN j
    ELSE SetCookie(LoadInto(j, entries, n - 1), CookieFromString(entries[n].cookie))

\* return value of loadCookies()
LoadResult(file) ==
    /\ Iterable(file)
    /\ LoadedPrefix(file.entries) = Len(file.entries)

\* the jar after loadCookies()
LoadJar(j, file) ==
    IF Iterable(file) THEN LoadInto(j, file.entries, LoadedPrefix(file.entries)) ELSE j

\* jar.getCookies(BASE_URL) as a sequence: cookies of the host matching path "/"
RECURSIVE SeqOfSet(_)
SeqOfSet(S) ==
    IF S = {} THEN <<>>
    ELSE LET c == CHOOSE x \in S : TRUE IN <<c>> \o SeqOfSet(S \ {c})

GetCookies(j) == SeqOfSet({c \in j : c.domain = HostDomain /\ c.path = "/"})

\* cookies.map(c => ({key, value, domain, path, expires}))
SnapshotOf(j) ==
    LET cs == GetCookies(j)
    IN File("array", [k \in 1..Len(cs) |-> SnapshotEntry(cs[k], TRUE)])

(***************************************************************************)
(* The users endpoint                                                      *)
(***************************************************************************)
User(k) == [id |-> k, name |-> k, email |-> k, role |-> k, status |-> k]
Ascending(n) == [k \in 1..n |-> User(k)]
Descending(n) == [k \in 1..n |-> User(n + 1 - k)]

\* lengths around the empty array and around the limit of 10
ArrayLengths == {0} \cup ((UserLimit - 1)..MaxArrayLen)

\* response.data of POST /api/users: an array, or something that is not one
Body(isArray, data) == [isArray |-> isArray, data |-> data]
UsersBodies ==
    {Body(FALSE, <<>>)}
    \cup {Body(TRUE, Ascending(n)) : n \in ArrayLengths}
    \cup {Body(TRUE, Descending(MaxArrayLen))}

\* Array.prototype.slice(start, end) for 0 <= start <= end
Slice(arr, start, end) ==
    LET e == Min(end, Len(arr))
        b == Min(start, e)
    IN [k \in 1..(e - b) |-> arr[b + k]]

(***************************************************************************)
(* The settings page                                                       *)
(***************************************************************************)
FieldIds == {"access_token", "openId", "userId", "apiuser", "operateId", "language"}
Absent == "<absent>"

\* a document gives, for each id, the value attribute of the element with
\* that id, or Absent
Document(present, empty) ==
    [f \in FieldIds |-> IF f \in present THEN (IF f \in empty THEN "" ELSE f) ELSE Absent]

SettingsDocuments ==
    { Document(FieldIds, {}),
      Document({}, {}),
      Document(FieldIds \ {"access_token"}, {"language"}) }

\* no settings page parsed yet
NoDocument == [f \in FieldIds |-> Null]

\* mutant: the default for a missing element is left out
ValNoDefault(doc, id) == doc[id]
\* String($('#id').val() || '')
Val(doc, id) == IF doc[id] = Absent THEN "" ELSE doc[id]

NoCurrentUser == [accessToken |-> Null, openId |-> Null, userId |-> Null,
                  apiUser |-> Null, operateId |-> Null, language |-> Null]

ExtractFields(doc) ==
    [accessToken |-> Val(doc, "access_token"), openId |-> Val(doc, "openId"),
     userId |-> Val(doc, "userId"), apiUser |-> Val(doc, "apiuser"),
     operateId |-> Val(doc, "operateId"), language |-> Val(doc, "language")]

\* index.ts also has id: String($('#userId').val() || '')
ExtractFieldsWithId(doc) ==
    [id |-> Val(doc, "userId"),
     accessToken |-> Val(doc, "access_token"), openId |-> Val(doc, "openId"),
     userId |-> Val(doc, "userId"), apiUser |-> Val(doc, "apiuser"),
     operateId |-> Val(doc, "operateId"), language |-> Val(doc, "language")]

SettingsBody(empty, doc) == [empty |-> empty, fields |-> doc]
SettingsBodies ==
    {SettingsBody(TRUE, Document({}, {}))}
    \cup {SettingsBody(FALSE, d) : d \in SettingsDocuments}

(***************************************************************************)
(* retryRequest                                                            *)
(***************************************************************************)
TraceCall(n) == <<"call", n, NullError>>
TraceResolved(v) == <<"resolved", v, NullError>>
TraceRejected(n, e) == <<"rejected", n, e>>
TraceLog(n, e) == <<"log", n, e>>
TraceWait(ms) == <<"wait", ms, NullError>>

\* mutants of the loop condition: one attempt too many, one too few
LoopConditionInclusive(k, max) == k <= max
LoopConditionShort(k, max) == k < max - 1
\* for (let i = 0; i < maxRetries; i++)
LoopCondition(k, max) == k < max
\* mutant: the first error is kept
CaughtFirst(previous, e) == IF previous = NullError THEN e ELSE previous
\* lastError = error as Error
Caught(previous, e) == e
\* if (i < maxRetries - 1)
ShouldWait(k, max) == k < max - 1
\* mutant: constant backoff
DelayMsConstant(k) == RETRY_DELAY
\* RETRY_DELAY * (i + 1)
DelayMs(k) == RETRY_DELAY * (k + 1)

\* entry of retryRequest(requestFn, max)
RetryEnter(max) ==
    /\ i' = 0
    /\ maxRetries' = max
    /\ lastError' = NullError
    /\ waiting' = FALSE
    /\ rrValue' = 0
    /\ rrTrace' = <<>>
    /\ rrState' = IF LoopCondition(0, max) THEN "running" ELSE "threw"

\* requestFn() resolved with v: return await requestFn()
RetryReturn(v) ==
    /\ rrState' = "returned"
    /\ rrValue' = v
    /\ rrTrace' = rrTrace \o <<TraceCall(i + 1), TraceResolved(v)>>
    /\ UNCHANGED <<i, maxRetries, lastError, waiting>>

\* requestFn() rejected with e: the catch block, up to the await or the throw
RetryFail(e) ==
    /\ lastError' = Caught(lastError, e)
    /\ rrTrace' = rrTrace \o <<TraceCall(i + 1), TraceRejected(i + 1, e),
                               TraceLog(i + 1, Caught(lastError, e))>>
    /\ IF ShouldWait(i, maxRetries)
       THEN waiting' = TRUE /\ i' = i /\ rrState' = rrState
       ELSE /\ waiting' = FALSE
            /\ i' = i + 1
            /\ rrState' = IF LoopCondition(i + 1, maxRetries) THEN "running" ELSE "threw"
    /\ UNCHANGED <<maxRetries, rrValue>>

\* this failure makes retryRequest throw lastError
RetryThrows == ~ShouldWait(i, maxRetries) /\ ~LoopCondition(i + 1, maxRetries)

\* requestFn may be invoked now
CanAttempt == rrState = "running" /\ ~waiting /\ LoopCondition(i, maxRetries)

RetryPcs == {"login", "users", "currentUser", "tokens", "script"}

\* await delay(RETRY_DELAY * (i + 1)) returns; i++
Delay ==
    /\ pc \in RetryPcs
    /\ waiting
    /\ waiting' = FALSE
    /\ rrTrace' = Append(rrTrace, TraceWait(DelayMs(i)))
    /\ i' = i + 1
    /\ UNCHANGED <<maxRetries, lastError, rrState, rrValue>>
    /\ UNCHANGED <<variant, failed, pc, cookiesFile, jar, cookiesLoaded, testResponse,
                   loginSuccess, loginPage, nonce, requests, usersData, users,
                   currentUser, settingsData, saveCalls, saveLog, outputFile, outputWrites,
                   error, exitCode>>

(***************************************************************************)
(* main                                                                    *)
(***************************************************************************)
\* an error reaches the outer catch of main: process.exit(1)
Abort(e) ==
    /\ pc' = "aborted"
    /\ error' = e
    /\ exitCode' = 1

InitRest ==
    /\ jar = {}
    /\ cookiesLoaded = FALSE
    /\ testResponse = NoStatus
    /\ loginSuccess = FALSE
    /\ loginPage = NoPage
    /\ nonce = Null
    /\ requests = <<>>
    /\ i = 0
    /\ maxRetries = MAX_RETRIES
    /\ lastError = NullError
    /\ waiting = FALSE
    /\ rrState = "idle"
    /\ rrValue = 0
    /\ rrTrace = <<>>
    /\ usersData = <<>>
    /\ users = <<>>
    /\ currentUser = NoCurrentUser
    /\ settingsData = NoDocument
    /\ failed = 0
    /\ saveCalls = 0
    /\ saveLog = "none"
    /\ outputFile = <<>>
    /\ outputWrites = 0
    /\ error = NullError
    /\ exitCode = -1

Init ==
    /\ variant \in Variants
    /\ pc = IF variant = "index" THEN "getLogin" ELSE "start"
    /\ cookiesFile \in IF variant = "index" THEN {MissingFile} ELSE SnapshotFiles
    /\ InitRest

\* const cookiesLoaded = await loadCookies(); if (cookiesLoaded) ...
LoadCookies ==
    /\ pc = "start"
    /\ HasCookieStore
    /\ cookiesLoaded' = LoadResult(cookiesFile)
    /\ jar' = LoadJar(jar, cookiesFile)
    /\ pc' = IF LoadResult(cookiesFile) THEN "probe" ELSE "getLogin"
    /\ UNCHANGED <<variant, failed, cookiesFile, testResponse, loginSuccess, loginPage, nonce,
                   requests, rrVars, usersData, users, currentUser, settingsData, saveCalls,
                   saveLog, outputFile, outputWrites, error, exitCode>>

\* mutant: the status is compared with the string '200'
ProbeAcceptsString(status) == FALSE
\* if (testResponse.status === 200)
ProbeAccepts(status) == status = 200

\* mutant: saveCookies is called after the probe too, outside if (!loginSuccess)
ProbeThenSave ==
    /\ pc = "probe"
    /\ \E status \in ProbeStatuses :
         LET resolved == DefaultValidateStatus(status)
             reused == resolved /\ ProbeAccepts(status)
         IN /\ failed' = failed + (IF resolved THEN 0 ELSE 1)
            /\ requests' = Append(requests, Request("GET", "/list", Null))
            /\ testResponse' = IF resolved THEN status ELSE NoStatus
            /\ loginSuccess' = reused
            /\ pc' = IF reused THEN "saveCookies" ELSE "getLogin"
    /\ UNCHANGED <<variant, cookiesFile, jar, cookiesLoaded, loginPage, nonce, rrVars,
                   usersData, users, currentUser, settingsData, saveCalls, saveLog, outputFile,
                   outputWrites, error, exitCode>>

\* the probe: client.get(`${BASE_URL}/list`) inside its own try/catch
Probe ==
    /\ pc = "probe"
    /\ \E status \in ProbeStatuses :
         LET resolved == DefaultValidateStatus(status)
             reused == resolved /\ ProbeAccepts(status)
         IN /\ failed' = failed + (IF resolved THEN 0 ELSE 1)
            /\ requests' = Append(requests, Request("GET", "/list", Null))
            /\ testResponse' = IF resolved THEN status ELSE NoStatus
            /\ loginSuccess' = reused
            /\ pc' = IF reused THEN "callUsers" ELSE "getLogin"
    /\ UNCHANGED <<variant, cookiesFile, jar, cookiesLoaded, loginPage, nonce, rrVars,
                   usersData, users, currentUser, settingsData, saveCalls, saveLog, outputFile,
                   outputWrites, error, exitCode>>

\* client.get(`${BASE_URL}/login`), extractNonce, the nonce check
GetLoginPage ==
    /\ pc = "getLogin"
    /\ \E status \in PageStatuses, html \in LoginPages :
         /\ failed' = failed + (IF DefaultValidateStatus(status) THEN 0 ELSE 1)
         /\ requests' = Append(requests, Request("GET", "/login", Null))
         /\ IF ~DefaultValidateStatus(status)
            THEN Abort(ResponseError(status)) /\ UNCHANGED <<loginPage, nonce>>
            ELSE /\ loginPage' = html
                 /\ nonce' = extractNonce(html)
                 /\ IF NonceMissing(extractNonce(html))
                    THEN Abort(NonceError)
                    ELSE pc' = "callLogin" /\ UNCHANGED <<error, exitCode>>
    /\ UNCHANGED <<variant, cookiesFile, jar, cookiesLoaded, testResponse, loginSuccess,
                   rrVars, usersData, users, currentUser, settingsData, saveCalls, saveLog,
                   outputFile, outputWrites>>

CallTarget(p) ==
    CASE p = "callLogin" -> "login"
      [] p = "callUsers" -> "users"
      [] p = "callCurrentUser" -> "currentUser"
      [] p = "callTokens" -> "tokens"

\* await retryRequest(async () => { ... }) with the default maxRetries
CallRetryRequest ==
    /\ pc \in {"callLogin", "callUsers", "callCurrentUser", "callTokens"}
    /\ RetryEnter(MAX_RETRIES)
    /\ pc' = CallTarget(pc)
    /\ UNCHANGED <<variant, failed, cookiesFile, jar, cookiesLoaded, testResponse, loginSuccess,
                   loginPage, nonce, requests, usersData, users, currentUser, settingsData,
                   saveCalls, saveLog, outputFile, outputWrites, error, exitCode>>

\* one attempt of the login POST inside retryRequest, and what follows it
LoginPost ==
    /\ pc = "login"
    /\ CanAttempt
    /\ \E status \in LoginStatuses, setCookies \in ServerSetCookies :
         /\ failed' = failed + (IF LoginValidateStatus(status) THEN 0 ELSE 1)
         /\ requests' = Append(requests, Request("POST", "/login", nonce))
         /\ IF LoginValidateStatus(status)
            THEN /\ RetryReturn(status)
                 /\ jar' = SetCookies(jar, setCookies)
                 /\ loginSuccess' = TRUE
                 /\ pc' = IF HasCookieStore THEN "saveCookies" ELSE "callUsers"
                 /\ loginPage' = IF HasCookieStore THEN loginPage ELSE NoPage
                 /\ UNCHANGED <<error, exitCode>>
            ELSE /\ RetryFail(ResponseError(status))
                 /\ IF RetryThrows
                    THEN Abort(Caught(lastError, ResponseError(status)))
                    ELSE UNCHANGED <<pc, error, exitCode>>
                 /\ UNCHANGED <<jar, loginSuccess, loginPage>>
    /\ UNCHANGED <<variant, cookiesFile, cookiesLoaded, testResponse, nonce, usersData,
                   users, currentUser, settingsData, saveCalls, saveLog, outputFile, outputWrites>>

\* mutant: no try/catch in saveCookies, a failed write reaches main's catch
SaveCookiesThrows ==
    /\ pc = "saveCookies"
    /\ saveCalls' = saveCalls + 1
    /\ loginPage' = NoPage
    /\ \E writeOk \in BOOLEAN :
         IF writeOk
         THEN /\ cookiesFile' = SnapshotOf(jar)
              /\ saveLog' = "saved"
              /\ pc' = "callUsers"
              /\ UNCHANGED <<error, exitCode>>
         ELSE /\ cookiesFile' = cookiesFile
              /\ saveLog' = "error"
              /\ Abort(WriteError)
    /\ UNCHANGED <<variant, failed, jar, cookiesLoaded, testResponse, loginSuccess, nonce,
                   requests, rrVars, usersData, users, currentUser, settingsData,
                   outputFile, outputWrites>>

\* await saveCookies(), the end of the if (!loginSuccess) block
SaveCookies ==
    /\ pc = "saveCookies"
    /\ saveCalls' = saveCalls + 1
    /\ \E writeOk \in BOOLEAN :
         IF writeOk
         THEN cookiesFile' = SnapshotOf(jar) /\ saveLog' = "saved"
         ELSE cookiesFile' = cookiesFile /\ saveLog' = "error"
    /\ loginPage' = NoPage
    /\ pc' = "callUsers"
    /\ UNCHANGED <<variant, failed, jar, cookiesLoaded, testResponse, loginSuccess, nonce,
                   requests, rrVars, usersData, users, currentUser, settingsData, outputFile,
                   outputWrites, error, exitCode>>

\* mutant: one record too few
TakeUsersShort(data) == Slice(data, 0, UserLimit - 1)
\* usersResponse.data.slice(0, 10)
TakeUsers(data) == Slice(data, 0, UserLimit)

\* mutant: retryRequest rethrows the bad-format error at once instead of
\* going round the loop
UsersPostFormatFatal ==
    /\ pc = "users"
    /\ CanAttempt
    /\ \E status \in DataStatuses, body \in UsersBodies :
         /\ failed' = failed + (IF DefaultValidateStatus(status) /\ body.isArray THEN 0 ELSE 1)
         /\ requests' = Append(requests, Request("POST", "/api/users", Null))
         /\ IF DefaultValidateStatus(status) /\ body.isArray
            THEN /\ RetryReturn(status)
                 /\ usersData' = body.data
                 /\ users' = TakeUsers(body.data)
                 /\ pc' = IF variant = "part_000" THEN "saveJson" ELSE "callCurrentUser"
                 /\ UNCHANGED <<error, exitCode>>
            ELSE IF DefaultValidateStatus(status)
            THEN /\ rrTrace' = rrTrace \o <<TraceCall(i + 1),
                                            TraceRejected(i + 1, UsersFormatError)>>
                 /\ rrState' = "threw"
                 /\ lastError' = UsersFormatError
                 /\ Abort(UsersFormatError)
                 /\ UNCHANGED <<usersData, users, i, maxRetries, waiting, rrValue>>
            ELSE /\ RetryFail(ResponseError(status))
                 /\ UNCHANGED <<usersData, users>>
                 /\ IF RetryThrows
                    THEN Abort(Caught(lastError, ResponseError(status)))
                    ELSE UNCHANGED <<pc, error, exitCode>>
    /\ UNCHANGED <<variant, cookiesFile, jar, cookiesLoaded, testResponse, loginSuccess,
                   loginPage, nonce, currentUser, settingsData, saveCalls, saveLog,
                   outputFile, outputWrites>>

\* one attempt of POST /api/users inside retryRequest, and what follows it
UsersPost ==
    /\ pc = "users"
    /\ CanAttempt
    /\ \E status \in DataStatuses, body \in UsersBodies :
         LET failure == IF ~DefaultValidateStatus(status) THEN ResponseError(status)
                        ELSE UsersFormatError
         IN /\ failed' = failed + (IF DefaultValidateStatus(status) /\ body.isArray THEN 0 ELSE 1)
            /\ requests' = Append(requests, Request("POST", "/api/users", Null))
            /\ IF DefaultValidateStatus(status) /\ body.isArray
               THEN /\ RetryReturn(status)
                    /\ usersData' = body.data
                    /\ users' = TakeUsers(body.data)
                    /\ pc' = IF variant = "part_000" THEN "saveJson"
                             ELSE IF variant = "part_001" /\ Len(TakeUsers(body.data)) = 0
                                  THEN "debugList"
                                  ELSE "callCurrentUser"
                    /\ UNCHANGED <<error, exitCode>>
               ELSE /\ RetryFail(failure)
                    /\ UNCHANGED <<usersData, users>>
                    /\ IF RetryThrows
                       THEN IF variant = "part_001"
                            THEN pc' = "debugList" /\ UNCHANGED <<error, exitCode>>
                            ELSE Abort(Caught(lastError, failure))
                       ELSE UNCHANGED <<pc, error, exitCode>>
    /\ UNCHANGED <<variant, cookiesFile, jar, cookiesLoaded, testResponse, loginSuccess,
                   loginPage, nonce, currentUser, settingsData, saveCalls, saveLog, outputFile,
                   outputWrites>>

\* part_001, if (!users.length): the debugging GET of /list, then the throw
DebugList ==
    /\ pc = "debugList"
    /\ \E status \in PageStatuses, jsMatch \in BOOLEAN :
         /\ failed' = failed + (IF DefaultValidateStatus(status) THEN 0 ELSE 1)
         /\ requests' = Append(requests, Request("GET", "/list", Null))
         /\ IF DefaultValidateStatus(status) /\ jsMatch
            THEN pc' = "debugJs" /\ UNCHANGED <<error, exitCode>>
            ELSE Abort(NoUsersError)
    /\ UNCHANGED <<variant, cookiesFile, jar, cookiesLoaded, testResponse, loginSuccess,
                   loginPage, nonce, rrVars, usersData, users, currentUser, settingsData, saveCalls,
                   saveLog, outputFile, outputWrites>>

\* part_001: the debugging GET of the script the /list page names, then the throw
DebugJs ==
    /\ pc = "debugJs"
    /\ requests' = Append(requests, Request("GET", "/js/list", Null))
    /\ Abort(NoUsersError)
    /\ UNCHANGED <<variant, failed, cookiesFile, jar, cookiesLoaded, testResponse, loginSuccess,
                   loginPage, nonce, rrVars, usersData, users, currentUser, settingsData, saveCalls,
                   saveLog, outputFile, outputWrites>>

\* the record built from the settings page
UserData(doc) == IF variant = "index" THEN ExtractFieldsWithId(doc) ELSE ExtractFields(doc)

\* one attempt of GET /settings/tokens (current user) inside retryRequest
CurrentUserGet ==
    /\ pc = "currentUser"
    /\ CanAttempt
    /\ \E status \in DataStatuses, body \in SettingsBodies :
         LET failure == IF ~DefaultValidateStatus(status) THEN ResponseError(status)
                        ELSE EmptySettingsError
         IN /\ failed' = failed + (IF DefaultValidateStatus(status) /\ ~body.empty THEN 0 ELSE 1)
            /\ requests' = Append(requests, Request("GET", "/settings/tokens", Null))
            /\ IF DefaultValidateStatus(status) /\ ~body.empty
               THEN /\ RetryReturn(status)
                    /\ currentUser' = UserData(body.fields)
                    /\ settingsData' = body.fields
                    /\ pc' = IF variant = "part_001" THEN "callTokens" ELSE "saveJson"
                    /\ UNCHANGED <<error, exitCode>>
               ELSE /\ RetryFail(failure)
                    /\ UNCHANGED <<currentUser, settingsData>>
                    /\ IF RetryThrows
                       THEN Abort(Caught(lastError, failure))
                       ELSE UNCHANGED <<pc, error, exitCode>>
    /\ UNCHANGED <<variant, cookiesFile, jar, cookiesLoaded, testResponse, loginSuccess,
                   loginPage, nonce, usersData, users, saveCalls, saveLog, outputFile,
                   outputWrites>>

\* part_001: one attempt of the second GET /settings/tokens (tokens)
TokensGet ==
    /\ pc = "tokens"
    /\ CanAttempt
    /\ \E status \in DataStatuses, body \in SettingsBodies :
         LET failure == IF ~DefaultValidateStatus(status) THEN ResponseError(status)
                        ELSE EmptySettingsError
         IN /\ failed' = failed + (IF DefaultValidateStatus(status) /\ ~body.empty THEN 0 ELSE 1)
            /\ requests' = Append(requests, Request("GET", "/settings/tokens", Null))
            /\ IF DefaultValidateStatus(status) /\ ~body.empty
               THEN /\ RetryReturn(status)
                    /\ currentUser' = ExtractFields(body.fields)
                    /\ settingsData' = body.fields
                    /\ pc' = "saveJson"
                    /\ UNCHANGED <<error, exitCode>>
               ELSE /\ RetryFail(failure)
                    /\ UNCHANGED <<currentUser, settingsData>>
                    /\ IF RetryThrows
                       THEN Abort(Caught(lastError, failure))
                       ELSE UNCHANGED <<pc, error, exitCode>>
    /\ UNCHANGED <<variant, cookiesFile, jar, cookiesLoaded, testResponse, loginSuccess,
                   loginPage, nonce, usersData, users, saveCalls, saveLog, outputFile,
                   outputWrites>>

\* JSON.stringify(value, null, 2): the text written is that of an array or
\* that of an object
JsonArray(a) == [type |-> "array", value |-> a]
JsonObject(o) == [type |-> "object", value |-> o]

\* what saveToJson writes: part_000 the users array itself, the others the
\* object { users, currentUser }
OutputData ==
    IF variant = "part_000" THEN JsonArray(users)
    ELSE JsonObject([users |-> users, currentUser |-> currentUser])

\* saveToJson(...), the end of main
SaveToJson ==
    /\ pc = "saveJson"
    /\ \E writeOk \in BOOLEAN :
         IF writeOk
         THEN /\ outputFile' = <<OutputData>>
              /\ outputWrites' = outputWrites + 1
              /\ pc' = "done"
              /\ exitCode' = 0
              /\ error' = error
         ELSE /\ Abort(WriteError)
              /\ UNCHANGED <<outputFile, outputWrites>>
    /\ UNCHANGED <<variant, failed, cookiesFile, jar, cookiesLoaded, testResponse, loginSuccess,
                   loginPage, nonce, requests, rrVars, usersData, users, currentUser, settingsData,
                   saveCalls, saveLog>>

Next ==
    \/ LoadCookies
    \/ Probe
    \/ GetLoginPage
    \/ CallRetryRequest
    \/ LoginPost
    \/ Delay
    \/ SaveCookies
    \/ UsersPost
    \/ DebugList
    \/ DebugJs
    \/ CurrentUserGet
    \/ TokensGet
    \/ SaveToJson

Spec == Init /\ [][Next]_vars

(***************************************************************************)
(* retryRequest on its own: any maxRetries, any operation.  The operation  *)
(* resolves with a value or rejects with an error at each invocation.      *)
(***************************************************************************)
ScriptValues == {7, 8}
ScriptErrors == {StatusError(500), StatusError(503), NetworkError}

InitRetry ==
    /\ variant = "retryRequest"
    /\ pc = "callScript"
    /\ cookiesFile = MissingFile
    /\ InitRest

\* retryRequest(requestFn, max)
ScriptCall ==
    /\ pc = "callScript"
    /\ \E max \in 0..MaxAttemptsBound :
         /\ RetryEnter(max)
         /\ error' = IF LoopCondition(0, max) THEN error ELSE NullError
    /\ pc' = "script"
    /\ UNCHANGED <<variant, failed, cookiesFile, jar, cookiesLoaded, testResponse, loginSuccess,
                   loginPage, nonce, requests, usersData, users, currentUser, settingsData,
                   saveCalls, saveLog, outputFile, outputWrites, exitCode>>

\* one invocation of requestFn that resolves
ScriptResolve ==
    /\ pc = "script"
    /\ CanAttempt
    /\ \E v \in ScriptValues : RetryReturn(v)
    /\ UNCHANGED <<variant, failed, pc, cookiesFile, jar, cookiesLoaded, testResponse,
                   loginSuccess, loginPage, nonce, requests, usersData, users,
                   currentUser, settingsData, saveCalls, saveLog, outputFile, outputWrites,
                   error, exitCode>>

\* one invocation of requestFn that rejects; error is what retryRequest throws
ScriptReject ==
    /\ pc = "script"
    /\ CanAttempt
    /\ \E e \in ScriptErrors :
         /\ RetryFail(e)
         /\ error' = IF RetryThrows THEN Caught(lastError, e) ELSE error
    /\ UNCHANGED <<variant, failed, pc, cookiesFile, jar, cookiesLoaded, testResponse,
                   loginSuccess, loginPage, nonce, requests, usersData, users,
                   currentUser, settingsData, saveCalls, saveLog, outputFile, outputWrites,
                   exitCode>>

NextRetry == ScriptCall \/ ScriptResolve \/ ScriptReject \/ Delay

SpecRetry == InitRetry /\ [][NextRetry]_vars

(***************************************************************************)
(* Vocabulary of the properties                                            *)
(***************************************************************************)
IsProbe(r) == r.method = "GET" /\ r.path = "/list"
IsLoginGet(r) == r.method = "GET" /\ r.path = "/login"
IsLoginPost(r) == r.method = "POST" /\ r.path = "/login"
IsLoginRequest(r) == r.path = "/login"
IsDataFetch(r) ==
    \/ r.method = "POST" /\ r.path = "/api/users"
    \/ r.method = "GET" /\ r.path = "/settings/tokens"

LoginGets == {k \in 1..Len(requests) : IsLoginGet(requests[k])}
LoginPosts == {k \in 1..Len(requests) : IsLoginPost(requests[k])}
LoginRequests == {k \in 1..Len(requests) : IsLoginRequest(requests[k])}
DataFetches == {k \in 1..Len(requests) : IsDataFetch(requests[k])}

TraceIndices(kind) == {k \in 1..Len(rrTrace) : rrTrace[k][1] = kind}
TraceCount(kind) == Cardinality(TraceIndices(kind))

\* the probe was made and resolved with an HTTP success status
ProbeSucceeded == cookiesLoaded /\ testResponse # NoStatus
\* the probe was made and threw: network error or non-success status
ProbeFailed == cookiesLoaded /\ Len(requests) >= 1 /\ testResponse = NoStatus
NoSnapshotOrProbeFailed == (~cookiesLoaded /\ pc # "start") \/ ProbeFailed

(***************************************************************************)
(* C1: if loadCookies yields cookies and the probe GET /list returns an    *)
(* HTTP success status, the run is Authenticated by session reuse and no   *)
(* request to /login (GET or POST) is ever issued, whatever the success    *)
(* status.  Stated as in the claim; it fails for a 204.                    *)
(***************************************************************************)
C1_AnySuccessStatusReuses ==
    ProbeSucceeded => loginSuccess /\ LoginRequests = {}

(***************************************************************************)
(* C1 as amended: if loadCookies yields cookies and the probe returns      *)
(* status 200, the run is Authenticated by session reuse and main issues   *)
(* no GET /login and no POST /login.                                       *)
(***************************************************************************)
C1_Status200Reuses ==
    (cookiesLoaded /\ testResponse = 200) =>
        /\ loginSuccess
        /\ LoginRequests = {}
        /\ nonce = Null

C1_Witness ==
    /\ cookiesLoaded
    /\ testResponse = 200
    /\ pc = "done"
    /\ DataFetches # {}

(***************************************************************************)
(* C2: with no snapshot, or after a failed probe, the probe failure is not *)
(* surfaced as an error and exactly one GET /login followed by exactly one *)
(* POST /login precedes every data fetch.  Stated as in the claim; it      *)
(* fails when the POST is retried.                                         *)
(***************************************************************************)
C2_OneGetOnePost ==
    /\ (ProbeFailed /\ Len(requests) = 1) =>
           pc = "getLogin" /\ error = NullError /\ exitCode = -1
    /\ NoSnapshotOrProbeFailed =>
           \A d \in DataFetches :
               /\ Cardinality({g \in LoginGets : g < d}) = 1
               /\ Cardinality({p \in LoginPosts : p < d}) = 1

(***************************************************************************)
(* C2 as amended: with no snapshot, or after a failed probe, the probe     *)
(* failure is not surfaced as an error, and before every data fetch there  *)
(* is exactly one GET /login followed by at least one and at most          *)
(* MAX_RETRIES POST /login, and no login request comes after a data fetch. *)
(***************************************************************************)
C2_OneGetSomePosts ==
    /\ (ProbeFailed /\ Len(requests) = 1) =>
           pc = "getLogin" /\ error = NullError /\ exitCode = -1
    /\ NoSnapshotOrProbeFailed =>
           \A d \in DataFetches :
               /\ Cardinality({g \in LoginGets : g < d}) = 1
               /\ Cardinality({p \in LoginPosts : p < d}) \in 1..MAX_RETRIES
               /\ \A g \in LoginGets, p \in LoginPosts : g < p
               /\ \A l \in LoginRequests : l < d

C2_Witness ==
    /\ ProbeFailed
    /\ DataFetches # {}
    /\ Cardinality(LoginPosts) = 2

(***************************************************************************)
(* C3: no nonce is sent in more than one POST /login: every POST of the    *)
(* login, retries included, carries the nonce of a login page fetched for  *)
(* that attempt.  Stated as in the claim; the retried POST resends the     *)
(* same nonce without fetching the page again.                             *)
(***************************************************************************)
C3_NonceNeverReused ==
    \A a \in LoginPosts, b \in LoginPosts :
        a < b =>
            /\ requests[a].nonce # requests[b].nonce
            /\ \E g \in LoginGets : a < g /\ g < b

(***************************************************************************)
(* C4: a login page without a nonce aborts the run with the nonce-missing  *)
(* error and without retry: no POST /login, the page fetched once, no      *)
(* call of saveCookies, no output file.                                    *)
(***************************************************************************)
\* the page has an input named nonce (in any case) whose value attribute
\* follows the name and is not empty
PageHasNonce(html) ==
    \E k \in 1..Len(html) :
        /\ html[k].name \in {"nonce", "Nonce"}
        /\ html[k].valueFollowsName
        /\ html[k].value # ""

C4_NoNonceAborts ==
    (loginPage # NoPage /\ ~PageHasNonce(loginPage)) =>
        /\ pc = "aborted"
        /\ error = NonceError
        /\ exitCode = 1
        /\ LoginPosts = {}
        /\ Cardinality(LoginGets) = 1
        /\ rrState = "idle"
        /\ saveCalls = 0
        /\ outputFile = <<>>
        /\ outputWrites = 0

C4_Witness ==
    /\ loginPage # NoPage
    /\ Len(loginPage) = 2
    /\ ~PageHasNonce(loginPage)
    /\ error = NonceError

(***************************************************************************)
(* C5: a login POST answered 200 or 302 is a successful login; one         *)
(* answered with anything else is a failure that retryRequest retries up   *)
(* to MAX_RETRIES times, and when all attempts fail the run aborts, not    *)
(* Authenticated and without a data fetch.                                 *)
(***************************************************************************)
\* the retryRequest call of the login is the current one
LoginCallVisible ==
    /\ pc \in {"login", "saveCookies", "callUsers", "aborted"}
    /\ Len(requests) >= 1
    /\ IsLoginPost(requests[Len(requests)])

C5_LoginStatuses ==
    LoginCallVisible =>
        /\ Cardinality(LoginPosts) = TraceCount("call")
        /\ \A k \in TraceIndices("rejected") :
               \E s \in LoginStatuses \ {200, 302} : rrTrace[k][3] = ResponseError(s)
        /\ \A k \in TraceIndices("resolved") : rrTrace[k][2] \in {200, 302}
        /\ rrState = "returned" =>
               /\ rrValue \in {200, 302}
               /\ loginSuccess
               /\ pc # "aborted"
               /\ exitCode = -1
        /\ rrState = "running" =>
               /\ TraceCount("rejected") < MAX_RETRIES
               /\ ~loginSuccess
               /\ pc = "login"
        /\ rrState = "threw" =>
               /\ TraceCount("rejected") = MAX_RETRIES
               /\ Cardinality(LoginPosts) = MAX_RETRIES
               /\ pc = "aborted"
               /\ exitCode = 1
               /\ error = lastError
               /\ ~loginSuccess
               /\ DataFetches = {}

C5_Witness ==
    /\ LoginCallVisible
    /\ rrState = "returned"
    /\ rrValue = 302
    /\ TraceCount("rejected") = 2

(***************************************************************************)
(* C6: after a successful fresh login saveCookies has run (snapshot        *)
(* written, or the write failure logged) before any data fetch.  Stated as *)
(* in the claim; index.ts logs in and fetches without any Cookie Store.    *)
(***************************************************************************)
C6_SavedBeforeDataFetch ==
    (LoginPosts # {} /\ loginSuccess /\ DataFetches # {}) =>
        /\ saveCalls >= 1
        /\ saveLog \in {"saved", "error"}

(***************************************************************************)
(* C7: retryRequest, for every maxRetries >= 1: an operation that fails k  *)
(* < maxRetries times and then succeeds is invoked k + 1 times, one after  *)
(* the other, and its value is returned; it is not invoked after its       *)
(* first success, nor more than maxRetries times, and retryRequest does    *)
(* not give up before maxRetries failures.                                 *)
(***************************************************************************)
C7_RetryUntilSuccess ==
    (pc = "script" /\ maxRetries >= 1) =>
        /\ TraceCount("call") <= maxRetries
        /\ \A k \in TraceIndices("call") :
               /\ rrTrace[k][2] = Cardinality({j \in TraceIndices("call") : j <= k})
               /\ k < Len(rrTrace)
               /\ rrTrace[k + 1][1] \in {"resolved", "rejected"}
        /\ \A k \in TraceIndices("resolved") :
               /\ k = Len(rrTrace)
               /\ rrState = "returned"
               /\ rrValue = rrTrace[k][2]
        /\ rrState = "returned" =>
               /\ TraceCount("resolved") = 1
               /\ TraceCount("call") = TraceCount("rejected") + 1
               /\ TraceCount("rejected") < maxRetries
        /\ rrState = "running" => TraceCount("rejected") < maxRetries
        /\ rrState = "threw" => TraceCount("rejected") = maxRetries

C7_Witness ==
    /\ pc = "script"
    /\ maxRetries = MaxAttemptsBound
    /\ rrState = "returned"
    /\ TraceCount("rejected") = MaxAttemptsBound - 1
    /\ TraceCount("call") = MaxAttemptsBound

(***************************************************************************)
(* C8: retryRequest, when the operation fails on all maxRetries attempts,  *)
(* throws the error of the last attempt itself, after exactly maxRetries   *)
(* invocations.                                                            *)
(***************************************************************************)
LastRejected == rrTrace[CHOOSE k \in TraceIndices("rejected") :
                            \A j \in TraceIndices("rejected") : j <= k]

C8_ThrowsLastError ==
    (pc = "script" /\ maxRetries >= 1 /\ rrState = "threw") =>
        /\ TraceCount("call") = maxRetries
        /\ TraceCount("rejected") = maxRetries
        /\ TraceCount("resolved") = 0
        /\ LastRejected[2] = maxRetries
        /\ error = LastRejected[3]

C8_Witness ==
    /\ pc = "script"
    /\ maxRetries = 3
    /\ rrState = "threw"
    /\ rrTrace[2][1] = "rejected"
    /\ rrTrace[2][3] # LastRejected[3]
    /\ error = NetworkError

(***************************************************************************)
(* C9: retryRequest, after the i-th failed attempt with i < maxRetries,    *)
(* logs the failure and then waits RETRY_DELAY * i before attempt i + 1;   *)
(* there is no wait after the last failed attempt nor after a success.     *)
(***************************************************************************)
C9_LinearBackoff ==
    pc = "script" =>
        /\ \A k \in TraceIndices("rejected") :
               LET n == rrTrace[k][2]
               IN /\ k + 1 <= Len(rrTrace)
                  /\ rrTrace[k + 1][1] = "log"
                  /\ rrTrace[k + 1][2] = n
                  /\ IF n < maxRetries
                     THEN IF k + 2 <= Len(rrTrace)
                          THEN rrTrace[k + 2] = TraceWait(RETRY_DELAY * n)
                          ELSE waiting
                     ELSE k + 1 = Len(rrTrace) /\ ~waiting
        /\ \A k \in TraceIndices("wait") : k > 1 /\ rrTrace[k - 1][1] = "log"
        /\ \A k \in TraceIndices("call") :
               rrTrace[k][2] > 1 => rrTrace[k - 1] = TraceWait(RETRY_DELAY * (rrTrace[k][2] - 1))
        /\ \A k \in TraceIndices("resolved") : k = Len(rrTrace) /\ ~waiting

C9_Witness ==
    /\ pc = "script"
    /\ TraceCount("wait") = 3
    /\ \E k \in TraceIndices("wait") : rrTrace[k][2] = 3 * RETRY_DELAY
    /\ rrState = "threw"

(***************************************************************************)
(* C10: when the users endpoint returns an array of 10 elements or more,   *)
(* users holds exactly 10 records: the first 10 elements of the array, in  *)
(* their order and unchanged.                                              *)
(***************************************************************************)
C10_FirstTen ==
    Len(usersData) >= 10 =>
        /\ Len(users) = 10
        /\ \A k \in 1..10 : users[k] = usersData[k]

C10_Witness ==
    /\ Len(usersData) = 11
    /\ usersData[1].id = 11
    /\ Len(users) = 10
    /\ pc = "done"

IsUsersPost(r) == r.method = "POST" /\ r.path = "/api/users"
IsSettingsGet(r) == r.method = "GET" /\ r.path = "/settings/tokens"
UsersPosts == {k \in 1..Len(requests) : IsUsersPost(requests[k])}
SettingsGets == {k \in 1..Len(requests) : IsSettingsGet(requests[k])}

\* the users the output file holds
WrittenUsers ==
    IF outputFile[1].type = "array" THEN outputFile[1].value
    ELSE outputFile[1].value.users

\* the last request was a POST /api/users and retryRequest returned its array
UsersJustFetched ==
    /\ Len(requests) >= 1
    /\ IsUsersPost(requests[Len(requests)])
    /\ rrState = "returned"

(***************************************************************************)
(* C11: when the users endpoint returns an array of N < 10 elements, N = 0 *)
(* included, users holds exactly those N records in their order, and the   *)
(* run goes on with them (to the current-user fetch or to the output       *)
(* write) instead of failing.  Stated as in the claim; it fails in         *)
(* part_001 for N = 0.                                                     *)
(***************************************************************************)
C11_ShortArrayContinues ==
    /\ (UsersJustFetched /\ Len(usersData) < 10) =>
           /\ users = usersData
           /\ pc \in {"callCurrentUser", "saveJson"}
           /\ error = NullError
    /\ (pc = "done" /\ Len(usersData) < 10) => WrittenUsers = usersData

\* the field of the Current-User Record filled from the element with this id
RecordField(id) ==
    CASE id = "access_token" -> "accessToken"
      [] id = "apiuser" -> "apiUser"
      [] OTHER -> id

\* the record holds, for every one of the six ids, the value attribute of
\* the element of the parsed page, or "" when the page has no such element
RecordMatchesDocument ==
    /\ {RecordField(f) : f \in FieldIds} \subseteq DOMAIN currentUser
    /\ \A f \in FieldIds :
           currentUser[RecordField(f)] =
               IF settingsData[f] = Absent THEN "" ELSE settingsData[f]

(***************************************************************************)
(* C12, as stated: whatever document the settings page returns, the empty  *)
(* document included, no error is raised and the Current-User Record has   *)
(* all six fields, "" for an absent element and the value attribute for a  *)
(* present one.  It fails for the empty document: the fetch rejects it.    *)
(***************************************************************************)
C12_AnyDocumentExtracts ==
    /\ settingsData # NoDocument => RecordMatchesDocument
    /\ \A k \in TraceIndices("rejected") : rrTrace[k][3] # EmptySettingsError

(***************************************************************************)
(* C12, amended: for every non-empty settings document, whatever subset    *)
(* of the six elements it lacks, the Current-User Record has all six       *)
(* fields, "" for an absent element and the value attribute for a present  *)
(* one; an empty response body is rejected inside retryRequest and ends    *)
(* the run only when every attempt was rejected.                           *)
(***************************************************************************)
C12_NonEmptyDocumentExtracts ==
    /\ settingsData # NoDocument =>
           /\ RecordMatchesDocument
           /\ SettingsGets # {}
    /\ error = EmptySettingsError =>
           /\ pc = "aborted"
           /\ rrState = "threw"
           /\ TraceCount("call") = MAX_RETRIES

C12_Witness ==
    /\ settingsData = Document(FieldIds \ {"access_token"}, {"language"})
    /\ currentUser.accessToken = ""
    /\ currentUser.language = ""
    /\ currentUser.openId = "openId"
    /\ pc = "done"

\* rrTrace is that of the retryRequest call around POST /api/users
UsersCallVisible ==
    /\ UsersPosts # {}
    /\ SettingsGets = {}
    /\ pc \notin {"currentUser", "callTokens", "tokens", "done"}

\* the attempts refused because response.data was not an array
FormatRejections ==
    {k \in TraceIndices("rejected") : rrTrace[k][3] = UsersFormatError}

(***************************************************************************)
(* C13, as stated: a users response whose body is not an array is fatal    *)
(* at once: the run aborts with the bad-format error after that single     *)
(* POST /api/users, without a retry.  It fails: the check is retried.      *)
(***************************************************************************)
C13_FormatErrorFatalAtOnce ==
    (UsersCallVisible /\ FormatRejections # {}) =>
        /\ pc = "aborted"
        /\ error = UsersFormatError
        /\ Cardinality(UsersPosts) = 1

(***************************************************************************)
(* C13, amended: a users response whose body is not an array is refused    *)
(* with the bad-format error inside retryRequest, and the POST /api/users  *)
(* is sent again, at most MAX_RETRIES times in all; retryRequest gives up  *)
(* only after MAX_RETRIES POSTs, and then index.ts and part_000 abort with *)
(* the error of the last attempt, while part_001 goes to its debugging     *)
(* requests and aborts with the no-users error.                            *)
(***************************************************************************)
C13_FormatErrorRetried ==
    (UsersCallVisible /\ FormatRejections # {}) =>
        /\ Cardinality(UsersPosts) = TraceCount("call")
        /\ TraceCount("call") <= MAX_RETRIES
        /\ rrState = "running" => pc = "users" /\ exitCode = -1
        /\ rrState = "threw" =>
               /\ Cardinality(UsersPosts) = MAX_RETRIES
               /\ IF variant = "part_001"
                  THEN /\ pc \in {"debugList", "debugJs", "aborted"}
                       /\ error \in {NullError, NoUsersError}
                  ELSE /\ pc = "aborted"
                       /\ error = LastRejected[3]

C13_Witness ==
    /\ UsersCallVisible
    /\ Cardinality(FormatRejections) = MAX_RETRIES
    /\ Cardinality(UsersPosts) = MAX_RETRIES
    /\ variant = "index"
    /\ pc = "aborted"
    /\ error = UsersFormatError

\* a network error or an HTTP error status
IsTransientError(e) ==
    e = NetworkError \/ e[1] = "Request failed with status code"

\* the workflow requests other than the probe
IsWorkflowRequest(r) ==
    IsLoginGet(r) \/ IsLoginPost(r) \/ IsUsersPost(r) \/ IsSettingsGet(r)

(***************************************************************************)
(* C14: a network or HTTP failure of GET /login, POST /login, POST         *)
(* /api/users or GET /settings/tokens is retried up to the attempt limit,  *)
(* and the run aborts only when the limit is exhausted, with the error of  *)
(* the final attempt: a run aborted by such a failure has sent the failing *)
(* request MAX_RETRIES times and reports the last attempt's error.  Stated *)
(* as in the claim; it fails for GET /login, which is sent once.           *)
(***************************************************************************)
C14_TransientFailuresRetried ==
    (pc = "aborted" /\ IsTransientError(error)) =>
        /\ IsWorkflowRequest(requests[Len(requests)])
        /\ rrState = "threw"
        /\ TraceCount("call") = MAX_RETRIES
        /\ error = LastRejected[3]
        /\ Cardinality({k \in 1..Len(requests) :
                           requests[k] = requests[Len(requests)]}) >= MAX_RETRIES

\* the output file holds the text of an object with exactly these two fields
IsResultBundle(json) ==
    /\ json.type = "object"
    /\ DOMAIN json.value = {"users", "currentUser"}

(***************************************************************************)
(* C15: the output file is written at most once, and only after the        *)
(* session is established and both the users and the current user were     *)
(* extracted; it then holds the complete Result Bundle {users,             *)
(* currentUser}; a run that ends in an error has written no output.        *)
(* Stated as in the claim; it fails in part_000, which writes the users    *)
(* array alone.                                                            *)
(***************************************************************************)
C15_OutputIsCompleteBundle ==
    /\ outputWrites <= 1
    /\ outputFile # <<>> =>
           /\ outputWrites = 1
           /\ pc = "done"
           /\ loginSuccess
           /\ UsersPosts # {}
           /\ SettingsGets # {}
           /\ IsResultBundle(outputFile[1])
           /\ outputFile[1].value.users = users
           /\ outputFile[1].value.currentUser = currentUser
           /\ currentUser # NoCurrentUser
    /\ exitCode = 1 => outputFile = <<>> /\ outputWrites = 0

\* a snapshot that is missing, does not parse, is not a sequence of entries,
\* or has an entry that cannot be set as a cookie
Malformed(file) ==
    \/ file.kind \in {"missing", "unparseable", "notiterable", "string"}
    \/ \E k \in 1..Len(file.entries) : ~file.entries[k].ok

\* loadCookies has run and cookiesFile is still the file it read
SnapshotAsLoaded == HasCookieStore /\ pc # "start" /\ saveCalls = 0

(***************************************************************************)
(* C16: loadCookies never raises; for a missing or malformed snapshot      *)
(* (unparseable, not a sequence, or with an entry that cannot be set as a  *)
(* cookie) it returns false and the run goes on with a fresh login: no     *)
(* probe, the first request is GET /login.  Stated as in the claim; it     *)
(* fails for a snapshot that is a JSON string.                             *)
(***************************************************************************)
C16_MalformedLoadsFalse ==
    (SnapshotAsLoaded /\ Malformed(cookiesFile)) =>
        /\ ~cookiesLoaded
        /\ requests = <<>> => pc = "getLogin" /\ error = NullError /\ exitCode = -1
        /\ requests # <<>> => IsLoginGet(requests[1])

\* loadCookies has just returned: nothing else has touched the jar yet
JustLoaded == HasCookieStore /\ pc # "start" /\ requests = <<>>

(***************************************************************************)
(* C17: loadCookies returns true exactly when at least one cookie of the   *)
(* snapshot was put in the jar: an empty sequence gives false and no       *)
(* probe is sent, and after a load that returned false the jar holds no    *)
(* cookie of the snapshot.  Stated as in the claim; it fails for the       *)
(* empty array, for which loadCookies returns true.                        *)
(***************************************************************************)
C17_TrueIffLoaded ==
    /\ JustLoaded => (cookiesLoaded <=> jar # {})
    /\ (SnapshotAsLoaded /\ cookiesFile = File("array", <<>>)) =>
           /\ ~cookiesLoaded
           /\ requests # <<>> => ~IsProbe(requests[1])

(***************************************************************************)
(* C18: when the write of the cookie snapshot after a successful login     *)
(* fails, the failure is logged and swallowed: saveCookies does not abort  *)
(* the run, the session stays authenticated, and the run goes on to the    *)
(* data fetches and the output write; if it aborts later, it is after a    *)
(* data fetch was sent.                                                    *)
(***************************************************************************)
C18_SaveFailureSwallowed ==
    saveLog = "error" =>
        /\ saveCalls = 1
        /\ loginSuccess
        /\ DataFetches = {} =>
               pc \in {"callUsers", "users"} /\ error = NullError /\ exitCode = -1
        /\ pc = "aborted" => DataFetches # {}
        /\ pc = "done" => outputWrites = 1 /\ exitCode = 0

C18_Witness ==
    /\ saveLog = "error"
    /\ cookiesFile = MissingFile
    /\ pc = "done"
    /\ outputWrites = 1

\* a request sent by one of the calls of retryRequest
IsRetriedRequest(r) == IsLoginPost(r) \/ IsUsersPost(r) \/ IsSettingsGet(r)

(***************************************************************************)
(* C20: once a step has failed for good (the retries of the login, of the  *)
(* users fetch or of the settings fetch are exhausted, or the output       *)
(* write failed) no further HTTP request is sent, nothing is written and   *)
(* the process exits with a non-zero code; a run without such a failure    *)
(* ends normally.  As a state property: when retryRequest has thrown, the  *)
(* run is aborted with exit code 1, the last request sent is the last      *)
(* attempt of the failed step and there is no output.  Stated as in the    *)
(* claim; it fails in part_001 after the users fetch.                      *)
(***************************************************************************)
C20_FailureStopsEverything ==
    /\ rrState = "threw" =>
           /\ pc = "aborted"
           /\ exitCode = 1
           /\ IsRetriedRequest(requests[Len(requests)])
           /\ outputFile = <<>>
    /\ pc = "aborted" => exitCode = 1 /\ outputFile = <<>>
    /\ pc = "done" => exitCode = 0 /\ error = NullError /\ rrState # "threw"

\* the requests sent so far, as method and path
Sent == [k \in 1..Len(requests) |-> <<requests[k].method, requests[k].path>>]

\* a run that ended normally, found no snapshot to load and in which no
\* request failed
FreshRunWithoutFailure == pc = "done" /\ ~cookiesLoaded /\ failed = 0

(***************************************************************************)
(* C21: on a fresh-login run in which every request succeeds at its first  *)
(* attempt the requests sent are exactly GET /login, POST /login, POST     *)
(* /api/users, GET /settings/tokens, once each and in that order; in every *)
(* run the data fetches come after the session is authenticated and after  *)
(* every login request, and every GET /settings/tokens comes after the     *)
(* POSTs of /api/users.  Stated as in the claim; the first part fails in   *)
(* part_000 and part_001.                                                  *)
(***************************************************************************)
C21_RequestsInOrder ==
    /\ FreshRunWithoutFailure =>
           Sent = << <<"GET", "/login">>, <<"POST", "/login">>,
                     <<"POST", "/api/users">>, <<"GET", "/settings/tokens">> >>
    /\ DataFetches # {} => loginSuccess
    /\ \A k \in DataFetches : \A j \in LoginRequests : j < k
    /\ \A k \in SettingsGets :
           /\ UsersPosts # {}
           /\ \A j \in UsersPosts : j < k

\* loadCookies run on an empty jar
Restored(file) == LoadJar({}, file)

(***************************************************************************)
(* C22: saving the jar and then loading the snapshot into an empty jar     *)
(* gives back the same cookies: every cookie of the target origin has the  *)
(* name, value, domain, path and expiry it had when it was saved.  Stated  *)
(* as in the claim, about the snapshot saveCookies has just written; it    *)
(* fails for a cookie that has an expiry.                                  *)
(***************************************************************************)
C22_SaveThenLoadRestores ==
    saveLog = "saved" =>
        /\ LoadResult(cookiesFile)
        /\ Restored(cookiesFile) = {c \in jar : c.domain = HostDomain}

\* the run reuses the persisted session: cookies loaded, probe answered 200
SessionReused == cookiesLoaded /\ testResponse = 200

(***************************************************************************)
(* C23: a run that reuses the persisted session never calls saveCookies    *)
(* and leaves the snapshot file as it was; saveCookies is called, and the  *)
(* snapshot written, only on the fresh-login path: from the end of a login *)
(* whose POST was accepted, not after a reused session, not after a failed *)
(* login, and not a second time.                                           *)
(***************************************************************************)
C23_SaveOnlyAfterFreshLogin ==
    /\ [](SessionReused => saveCalls = 0 /\ saveLog = "none")
    /\ [](saveCalls <= 1)
    /\ [][(cookiesFile' # cookiesFile \/ saveCalls' # saveCalls) =>
              /\ pc = "saveCookies"
              /\ saveCalls = 0
              /\ ~SessionReused
              /\ loginSuccess
              /\ LoginPosts # {}
              /\ rrState = "returned"]_vars

C23_Witness ==
    /\ SessionReused
    /\ pc = "done"
    /\ cookiesFile = File("array", <<SnapshotEntry(OldCookie, TRUE)>>)
    /\ saveCalls = 0
    /\ LoginRequests = {}

ListGets == {k \in 1..Len(requests) : IsProbe(requests[k])}

\* the request kinds the workflow is made of
IsListedRequest(r) == IsProbe(r) \/ IsWorkflowRequest(r)

\* the retryRequest calls around GET /settings/tokens a script makes
SettingsFetchSteps == IF variant = "part_001" THEN 2 ELSE 1

(***************************************************************************)
(* C24: every run ends, with the output written and a normal exit or with  *)
(* a non-zero exit, and the requests it sends are bounded: at most one     *)
(* probe (GET /list), one GET /login, and MAX_RETRIES requests in each     *)
(* retried step (POST /login, POST /api/users, each fetch of GET           *)
(* /settings/tokens), and no others.  The formula states the bound on the  *)
(* requests and the two ways a run ends.  Stated as in the claim; the      *)
(* bound fails in part_001, which sends debugging requests.                *)
(***************************************************************************)
C24_RequestsBounded ==
    /\ \A k \in 1..Len(requests) : IsListedRequest(requests[k])
    /\ Cardinality(ListGets) <= 1
    /\ Cardinality(LoginGets) <= 1
    /\ Cardinality(LoginPosts) <= MAX_RETRIES
    /\ Cardinality(UsersPosts) <= MAX_RETRIES
    /\ Cardinality(SettingsGets) <= MAX_RETRIES * SettingsFetchSteps
    /\ pc = "done" => outputWrites = 1 /\ exitCode = 0
    /\ pc = "aborted" => exitCode = 1 /\ outputWrites = 0

====
